---- MODULE Spec2Model ----
(***************************************************************************)
(* genjibot: the skill-tier ranking (utils/utils.py: rank_finder,          *)
(* auto_role) and the map-submission writer (utils/maps.py:                *)
(* MapSubmission.insert_all).                                              *)
(*                                                                         *)
(* Six specifications share  the module's variables:                        *)
(*   SpecRank   - rank_finder applied to bounded aggregated inputs;        *)
(*   SpecRole   - auto_role reconciling one member's ladder roles;         *)
(*   SpecSubmit - insert_all writing a submission, with a reader;          *)
(*   SpecRace   - two concurrent auto_role calls for one member;           *)
(*   SpecFanout - update_affected_users walking the affected users;        *)
(*   SpecMedal  - the query of get_completions_data over joined rows.      *)
(* Each specification pins the variables of the others.                    *)
(***************************************************************************)
EXTENDS Integers, Sequences, FiniteSets, TLC

VARIABLES
    amounts,      \* dict returned by get_completions_data for the player
    rf_pc,        \* position of the rank_finder call: "call" | "done"
    rf_result,    \* (rank, rank_plus) returned by rank_finder
    user_roles,   \* user.roles: the roles the member holds on the guild
    users_rank,   \* column rank of the member's row in table users
    users_rank_plus, \* rank_plus of the Player record (no statement writes it)
    ar_pc,        \* position of the auto_role invocation
    ar_local,     \* locals of the invocation: rank, rank_plus, added, removed, new_roles
    ar_before,    \* user.roles when the invocation was entered
    ar_rank_before, \* users.rank when the invocation was entered
    ar_eff,       \* side effects of the invocation so far
    ar_prev,      \* how the previous invocation ended: "none" | "done" | "raised"
    calls,        \* number of invocations entered
    submission,   \* the MapSubmission being written, with the mod flag
    db,           \* rows per table for the submission's map code
    ia_pc,        \* position of insert_all: the next insert, "returned", "raised"
    seen,         \* what a concurrent reader last observed: tables with rows
    rc_pc,        \* position of each of two concurrent auto_role invocations
    rc_local,     \* locals of each of the two invocations
    rc_start,     \* roles, persisted rank and completions before the two ran
    records,      \* user ids with a row in records for the map code
    members,      \* user ids itx.guild.get_member resolves
    users,        \* the part of the list users the loop has not finished
    uau_pc,       \* position of update_affected_users
    invoked,      \* users auto_role was called for
    reconciled,   \* users whose auto_role returned
    failed,       \* users whose auto_role raised
    map_data,     \* rows of the CTE map_data with their bucket: one per completion
    gcd_pc        \* position of get_completions_data: "query" | "done"

rank_vars == <<amounts, rf_pc, rf_result>>

role_vars == <<user_roles, users_rank, users_rank_plus, ar_pc, ar_local,
               ar_before, ar_rank_before, ar_eff, ar_prev, calls>>

submit_vars == <<submission, db, ia_pc, seen>>

race_vars == <<rc_pc, rc_local, rc_start>>

fanout_vars == <<records, members, users, uau_pc, invoked, reconciled, failed>>

medal_vars == <<map_data, gcd_pc>>

vars == <<amounts, rf_pc, rf_result, user_roles, users_rank, users_rank_plus,
          ar_pc, ar_local, ar_before, ar_rank_before, ar_eff, ar_prev, calls,
          submission, db, ia_pc, seen, rc_pc, rc_local, rc_start,
          records, members, users, uau_pc, invoked, reconciled, failed,
          map_data, gcd_pc>>

(***************************************************************************)
(* Program constants                                                       *)
(***************************************************************************)

\* utils.DIFFICULTIES[1:] -- the six ranked buckets, Beginner ignored.
DIFFICULTIES == <<"Easy", "Medium", "Hard", "Very Hard", "Extreme", "Hell">>

_RANK_THRESHOLD == <<10, 10, 10, 10, 5, 2>>

\* utils.Roles.ranks() and utils.Roles.ranks_plus(): the two ladders, lowest
\* tier first; element 0 is the entry tier that auto_role slices away.
ranks == <<"Ninja", "Jumper", "Skilled", "Pro", "Master", "Grandmaster", "God">>

ranks_plus == <<"Ninja +", "Jumper +", "Skilled +", "Pro +", "Master +",
                "Grandmaster +", "God +">>

\* A role of the guild that is on neither ladder.
OtherRoles == {"Member"}

(***************************************************************************)
(* Bounds of the aggregated inputs                                         *)
(***************************************************************************)

\* A count drawn for bucket i misses its threshold by Spread or passes it
\* by Spread - 1.
Spread == 1

\* Most roles a member holds before the first reconciliation.
MaxInitRoles == 2

\* Highest rank persisted for the member before the first reconciliation.
MaxInitRank == 1

\* Longest guide list, mechanics list and restrictions list of a submission.
MaxGuides == 2

MaxTags == 1

\* Invocations of auto_role for the member in one behaviour.
MaxCalls == 2

\* Two concurrent invocations: most roles the member holds and highest rank
\* the completions earn before the two run.
MaxRaceRoles == 1

MaxRaceRank == 1

\* User ids with a record for the map code or a membership of the guild.
MaxUsers == 3

\* Record times and medal thresholds range over 1..MaxTime; a player has at
\* most MaxCompletions rows in map_data.
MaxTime == 2

MaxCompletions == 2

Max(a, b) == IF a >= b THEN a ELSE b

\* The two counts drawn for bucket i (1-based): below and at-or-above its
\* threshold.
CountVals(i) ==
    <<Max(0, _RANK_THRESHOLD[i] - Spread), _RANK_THRESHOLD[i] + Spread - 1>>

\* Per bucket: no row for the bucket (the empty tuple), or which of the two
\* counts the completions and the gold column take.
NoRow == <<>>

BucketChoices == {NoRow} \cup ({1, 2} \X {1, 2})

BucketIndex(d) == CHOOSE j \in 1..Len(DIFFICULTIES) : DIFFICULTIES[j] = d

\* The dict built from one choice per bucket: only buckets with a row are keys,
\* each value the 4-tuple (completions, gold, silver, bronze).
AmountsOf(choice) ==
    [d \in {DIFFICULTIES[i] : i \in {j \in 1..Len(DIFFICULTIES) : choice[j] # NoRow}} |->
        <<CountVals(BucketIndex(d))[choice[BucketIndex(d)][1]],
          CountVals(BucketIndex(d))[choice[BucketIndex(d)][2]], 0, 0>>]

(***************************************************************************)
(* rank_finder                                                             *)
(***************************************************************************)

\* Variant of the loop body: the gold test runs ahead of the completion test.
Iterate_GoldFirst(amts, i, rank, rank_plus) ==
    LET diff == DIFFICULTIES[i] IN
    IF diff \notin DOMAIN amts
    THEN [brk |-> TRUE, rank |-> rank, rank_plus |-> rank_plus]
    ELSE LET rp == IF amts[diff][2] >= _RANK_THRESHOLD[i]
                   THEN rank_plus + 1 ELSE rank_plus IN
         IF amts[diff][1] < _RANK_THRESHOLD[i]
         THEN [brk |-> TRUE, rank |-> rank, rank_plus |-> rp]
         ELSE [brk |-> FALSE, rank |-> rank + 1, rank_plus |-> rp]

\* Variant of the loop body: a bucket without a row counts as passed.
Iterate_MissingPasses(amts, i, rank, rank_plus) ==
    LET diff == DIFFICULTIES[i] IN
    IF diff \notin DOMAIN amts
    THEN [brk |-> FALSE, rank |-> rank + 1, rank_plus |-> rank_plus]
    ELSE IF amts[diff][1] < _RANK_THRESHOLD[i]
         THEN [brk |-> TRUE, rank |-> rank, rank_plus |-> rank_plus]
         ELSE IF amts[diff][2] >= _RANK_THRESHOLD[i] /\ rank_plus + 1 = rank + 1
              THEN [brk |-> FALSE, rank |-> rank + 1, rank_plus |-> rank_plus + 1]
              ELSE [brk |-> FALSE, rank |-> rank + 1, rank_plus |-> rank_plus]

\* Variant of the loop body: a failed bucket is skipped (continue, not break).
Iterate_Continue(amts, i, rank, rank_plus) ==
    LET diff == DIFFICULTIES[i] IN
    IF diff \notin DOMAIN amts \/ amts[diff][1] < _RANK_THRESHOLD[i]
    THEN [brk |-> FALSE, rank |-> rank, rank_plus |-> rank_plus]
    ELSE IF amts[diff][2] >= _RANK_THRESHOLD[i] /\ rank_plus + 1 = rank + 1
         THEN [brk |-> FALSE, rank |-> rank + 1, rank_plus |-> rank_plus + 1]
         ELSE [brk |-> FALSE, rank |-> rank + 1, rank_plus |-> rank_plus]

\* Variant of the loop body: a gold bucket raises rank_plus whether or not
\* rank_plus was level with rank before it.
Iterate_GoldAnywhere(amts, i, rank, rank_plus) ==
    LET diff == DIFFICULTIES[i] IN
    IF diff \notin DOMAIN amts \/ amts[diff][1] < _RANK_THRESHOLD[i]
    THEN [brk |-> TRUE, rank |-> rank, rank_plus |-> rank_plus]
    ELSE IF amts[diff][2] >= _RANK_THRESHOLD[i]
         THEN [brk |-> FALSE, rank |-> rank + 1, rank_plus |-> rank_plus + 1]
         ELSE [brk |-> FALSE, rank |-> rank + 1, rank_plus |-> rank_plus]

\* Variant of the loop body: the level test reads rank before its increment.
Iterate_StaleRank(amts, i, rank, rank_plus) ==
    LET diff == DIFFICULTIES[i] IN
    IF diff \notin DOMAIN amts \/ amts[diff][1] < _RANK_THRESHOLD[i]
    THEN [brk |-> TRUE, rank |-> rank, rank_plus |-> rank_plus]
    ELSE IF amts[diff][2] >= _RANK_THRESHOLD[i] /\ rank_plus + 1 = rank
         THEN [brk |-> FALSE, rank |-> rank + 1, rank_plus |-> rank_plus + 1]
         ELSE [brk |-> FALSE, rank |-> rank + 1, rank_plus |-> rank_plus]

\* One pass of the loop body for bucket i (1-based): whether the walk
\* breaks, and the counters after the pass.
Iterate(amts, i, rank, rank_plus) ==
    LET diff == DIFFICULTIES[i] IN
    IF diff \notin DOMAIN amts \/ amts[diff][1] < _RANK_THRESHOLD[i]
    THEN [brk |-> TRUE, rank |-> rank, rank_plus |-> rank_plus]
    ELSE IF amts[diff][1] >= _RANK_THRESHOLD[i]
         THEN LET r == rank + 1 IN
              IF amts[diff][2] >= _RANK_THRESHOLD[i] /\ rank_plus + 1 = r
              THEN [brk |-> FALSE, rank |-> r, rank_plus |-> rank_plus + 1]
              ELSE [brk |-> FALSE, rank |-> r, rank_plus |-> rank_plus]
         ELSE [brk |-> FALSE, rank |-> rank, rank_plus |-> rank_plus]

RECURSIVE Walk(_, _, _, _)
Walk(amts, i, rank, rank_plus) ==
    IF i > Len(DIFFICULTIES)
    THEN <<rank, rank_plus>>
    ELSE LET s == Iterate(amts, i, rank, rank_plus) IN
         IF s.brk THEN <<s.rank, s.rank_plus>>
         ELSE Walk(amts, i + 1, s.rank, s.rank_plus)

rank_finder(amts) == Walk(amts, 1, 0, 0)

(***************************************************************************)
(* SpecRank: rank_finder over the bounded inputs                           *)
(***************************************************************************)

\* The reader has not run yet.
Unread == {"unread"}

SubmitIdle ==
    /\ submission = <<>>
    /\ db = <<>>
    /\ ia_pc = "unused"
    /\ seen = Unread

MedalIdle ==
    /\ map_data = {}
    /\ gcd_pc = "unused"

RaceIdle ==
    /\ rc_pc = <<>>
    /\ rc_local = <<>>
    /\ rc_start = <<>>

FanoutIdle ==
    /\ records = {}
    /\ members = {}
    /\ users = <<>>
    /\ uau_pc = "unused"
    /\ invoked = {}
    /\ reconciled = {}
    /\ failed = {}

RoleIdle ==
    /\ user_roles = {}
    /\ users_rank = 0
    /\ users_rank_plus = 0
    /\ ar_pc = "unused"
    /\ ar_local = <<>>
    /\ ar_before = {}
    /\ ar_rank_before = 0
    /\ ar_eff = <<>>
    /\ ar_prev = "none"
    /\ calls = 0

InitRank ==
    /\ MedalIdle
    /\ RoleIdle
    /\ SubmitIdle
    /\ RaceIdle
    /\ FanoutIdle
    /\ \E choice \in [1..Len(DIFFICULTIES) -> BucketChoices] :
          amounts = AmountsOf(choice)
    /\ rf_pc = "call"
    /\ rf_result = <<0, 0>>

RankFinder ==
    /\ rf_pc = "call"
    /\ rf_result' = rank_finder(amounts)
    /\ rf_pc' = "done"
    /\ UNCHANGED amounts
    /\ UNCHANGED role_vars
    /\ UNCHANGED submit_vars
    /\ UNCHANGED race_vars
    /\ UNCHANGED fanout_vars
    /\ UNCHANGED medal_vars

NextRank == RankFinder

SpecRank == InitRank /\ [][NextRank]_vars

(***************************************************************************)
(* auto_role                                                               *)
(***************************************************************************)

\* seq[:n] and seq[n:] of Python, as the sets of their elements.
SliceTo(seq, n) == {seq[i] : i \in 1..(IF n < Len(seq) THEN n ELSE Len(seq))}

SliceFrom(seq, n) == {seq[i] : i \in (n + 1)..Len(seq)}

rank_roles == Tail(ranks)

rank_plus_roles == Tail(ranks_plus)

AllRoles ==
    {ranks[i] : i \in 1..Len(ranks)} \cup {ranks_plus[i] : i \in 1..Len(ranks_plus)}
        \cup OtherRoles

\* Variant: every target role is listed, held or not.
Added_Unfiltered(roles, rank, rank_plus) ==
    SliceTo(rank_roles, rank) \cup SliceTo(rank_plus_roles, rank_plus)

\* Variant: only the role of the reached tier is granted, not the ones below.
Added_TopOnly(roles, rank, rank_plus) ==
    {x \in SliceTo(rank_roles, rank) \ SliceTo(rank_roles, rank - 1) : x \notin roles}
        \cup {x \in SliceTo(rank_plus_roles, rank_plus)
                    \ SliceTo(rank_plus_roles, rank_plus - 1) : x \notin roles}

Added(roles, rank, rank_plus) ==
    {x \in SliceTo(rank_roles, rank) : x \notin roles}
        \cup {x \in SliceTo(rank_plus_roles, rank_plus) : x \notin roles}

Removed(roles, rank, rank_plus) ==
    {x \in SliceFrom(rank_roles, rank + 1) : x \in roles}
        \cup {x \in SliceFrom(rank_plus_roles, rank_plus + 1) : x \in roles}

\* Variant: new_roles is rebuilt from the ladder roles alone.
NewRoles_LadderOnly(roles, added, removed) ==
    ((roles \ OtherRoles) \cup added) \ removed

NewRoles(roles, added, removed) == (roles \cup added) \ removed

\* Variant: the newsfeed is told of every change of the grant set.
Dispatches_AnyChange(added, removed) == added # {} \/ removed # {}

\* Whether client.dispatch("newsfeed_role", ...) runs.
Dispatches(added, removed) == added # {}

\* Whether the direct message is attempted.
Notifies(added, removed) == added # {} \/ removed # {}

\* edited: user.edit applied; edit_error: user.edit raised; dbset: the UPDATE
\* ran; newsfeed: the events dispatched; sent: "no" | "delivered" | "failed".
NoEffects == [edited |-> FALSE, edit_error |-> FALSE, dbset |-> FALSE,
              newsfeed |-> <<>>, sent |-> "no"]

NoLocals == [rank |-> 0, rank_plus |-> 0, added |-> {}, removed |-> {}, new_roles |-> {}]

\* The tail of auto_role after the edit-and-persist block: the dispatch, then
\* either the awaited user.send or the return.
Announce(eff, added, removed) ==
    /\ ar_eff' = IF Dispatches(added, removed)
                 THEN [eff EXCEPT !.newsfeed = Append(@, added)]
                 ELSE eff
    /\ ar_pc' = IF Notifies(added, removed) THEN "send" ELSE "done"

\* auto_role is entered for the member.
AutoRoleCall ==
    /\ ar_pc \in {"idle", "done", "raised"}
    /\ calls < MaxCalls
    /\ calls' = calls + 1
    /\ ar_prev' = IF ar_pc = "idle" THEN "none" ELSE ar_pc
    /\ ar_pc' = "rank_finder"
    /\ ar_local' = NoLocals
    /\ ar_eff' = NoEffects
    /\ ar_before' = user_roles
    /\ ar_rank_before' = users_rank
    /\ UNCHANGED <<user_roles, users_rank, users_rank_plus>>
    /\ UNCHANGED rank_vars
    /\ UNCHANGED submit_vars
    /\ UNCHANGED race_vars
    /\ UNCHANGED fanout_vars
    /\ UNCHANGED medal_vars

\* await rank_finder returns (or the query raises); the deltas are computed
\* from user.roles and compared.
AutoRoleRankFinder ==
    /\ ar_pc = "rank_finder"
    /\ \/ /\ ar_pc' = "raised"
          /\ UNCHANGED <<ar_local, ar_eff>>
       \/ LET pair == rank_finder(amounts)
              a == Added(user_roles, pair[1], pair[2])
              r == Removed(user_roles, pair[1], pair[2])
              n == NewRoles(user_roles, a, r)
          IN  /\ ar_local' = [rank |-> pair[1], rank_plus |-> pair[2],
                               added |-> a, removed |-> r, new_roles |-> n]
              /\ IF n # user_roles
                 THEN ar_pc' = "edit" /\ UNCHANGED ar_eff
                 ELSE Announce(ar_eff, a, r)
    /\ UNCHANGED <<user_roles, users_rank, users_rank_plus, ar_before, ar_rank_before, ar_prev, calls>>
    /\ UNCHANGED rank_vars
    /\ UNCHANGED submit_vars
    /\ UNCHANGED race_vars
    /\ UNCHANGED fanout_vars
    /\ UNCHANGED medal_vars

\* Variant: the failure of user.edit is swallowed and the function goes on.
AutoRoleEdit_Swallowed ==
    /\ ar_pc = "edit"
    /\ \/ /\ user_roles' = ar_local.new_roles
          /\ ar_eff' = [ar_eff EXCEPT !.edited = TRUE]
          /\ ar_pc' = "dbset"
       \/ /\ ar_eff' = [ar_eff EXCEPT !.edit_error = TRUE]
          /\ ar_pc' = "dbset"
          /\ UNCHANGED user_roles
    /\ UNCHANGED <<users_rank, users_rank_plus, ar_local, ar_before, ar_rank_before, ar_prev, calls>>
    /\ UNCHANGED rank_vars
    /\ UNCHANGED submit_vars
    /\ UNCHANGED race_vars
    /\ UNCHANGED fanout_vars
    /\ UNCHANGED medal_vars

\* await user.edit(roles=new_roles): applied, or the call raises and the
\* exception leaves auto_role (nothing catches it).
AutoRoleEdit ==
    /\ ar_pc = "edit"
    /\ \/ /\ user_roles' = ar_local.new_roles
          /\ ar_eff' = [ar_eff EXCEPT !.edited = TRUE]
          /\ ar_pc' = "dbset"
       \/ /\ ar_eff' = [ar_eff EXCEPT !.edit_error = TRUE]
          /\ ar_pc' = "raised"
          /\ UNCHANGED user_roles
    /\ UNCHANGED <<users_rank, users_rank_plus, ar_local, ar_before, ar_rank_before, ar_prev, calls>>
    /\ UNCHANGED rank_vars
    /\ UNCHANGED submit_vars
    /\ UNCHANGED race_vars
    /\ UNCHANGED fanout_vars
    /\ UNCHANGED medal_vars

\* await database.set(UPDATE users SET rank): written, or the call raises;
\* once written the function runs on to the dispatch and the send.
AutoRoleDbSet ==
    /\ ar_pc = "dbset"
    /\ \/ /\ users_rank' = ar_local.rank
          /\ Announce([ar_eff EXCEPT !.dbset = TRUE], ar_local.added, ar_local.removed)
       \/ /\ ar_pc' = "raised"
          /\ UNCHANGED <<users_rank, ar_eff>>
    /\ UNCHANGED <<user_roles, users_rank_plus, ar_local, ar_before, ar_rank_before, ar_prev, calls>>
    /\ UNCHANGED rank_vars
    /\ UNCHANGED submit_vars
    /\ UNCHANGED race_vars
    /\ UNCHANGED fanout_vars
    /\ UNCHANGED medal_vars

\* Variant: the HTTPException of user.send is not suppressed.
AutoRoleSend_Raises ==
    /\ ar_pc = "send"
    /\ \/ /\ ar_eff' = [ar_eff EXCEPT !.sent = "delivered"]
          /\ ar_pc' = "done"
       \/ /\ ar_eff' = [ar_eff EXCEPT !.sent = "failed"]
          /\ ar_pc' = "raised"
    /\ UNCHANGED <<user_roles, users_rank, users_rank_plus, ar_local, ar_before,
                   ar_rank_before, ar_prev, calls>>
    /\ UNCHANGED rank_vars
    /\ UNCHANGED submit_vars
    /\ UNCHANGED race_vars
    /\ UNCHANGED fanout_vars
    /\ UNCHANGED medal_vars

\* await user.send(response) under contextlib.suppress(HTTPException).
AutoRoleSend ==
    /\ ar_pc = "send"
    /\ \E outcome \in {"delivered", "failed"} :
          ar_eff' = [ar_eff EXCEPT !.sent = outcome]
    /\ ar_pc' = "done"
    /\ UNCHANGED <<user_roles, users_rank, users_rank_plus, ar_local, ar_before,
                   ar_rank_before, ar_prev, calls>>
    /\ UNCHANGED rank_vars
    /\ UNCHANGED submit_vars
    /\ UNCHANGED race_vars
    /\ UNCHANGED fanout_vars
    /\ UNCHANGED medal_vars

\* Aggregated inputs reaching every pair (rank, rank_plus): the first r
\* buckets meet the completion threshold, the first g of them the gold one.
LadderChoice(r, g) ==
    [i \in 1..Len(DIFFICULTIES) |->
        IF i <= g THEN <<2, 2>> ELSE IF i <= r THEN <<2, 1>> ELSE NoRow]

InitRole ==
    /\ MedalIdle
    /\ SubmitIdle
    /\ RaceIdle
    /\ FanoutIdle
    /\ \E r \in 0..Len(DIFFICULTIES) : \E g \in 0..r :
          amounts = AmountsOf(LadderChoice(r, g))
    /\ rf_pc = "unused"
    /\ rf_result = <<0, 0>>
    /\ user_roles \in {S \in SUBSET AllRoles : Cardinality(S) <= MaxInitRoles}
    /\ users_rank \in 0..MaxInitRank
    /\ users_rank_plus = 0
    /\ ar_pc = "idle"
    /\ ar_local = NoLocals
    /\ ar_before = {}
    /\ ar_rank_before = 0
    /\ ar_eff = NoEffects
    /\ ar_prev = "none"
    /\ calls = 0

NextRole ==
    \/ AutoRoleCall
    \/ AutoRoleRankFinder
    \/ AutoRoleEdit
    \/ AutoRoleDbSet
    \/ AutoRoleSend

SpecRole == InitRole /\ [][NextRole]_vars

(***************************************************************************)
(* SpecRace: two invocations of auto_role for the same member, each       *)
(* suspended at its awaits while the other runs                            *)
(***************************************************************************)

\* The two invocations: the first follows an earlier completion, the
\* second follows the completion recorded by NewCompletion.
Invocations == {1, 2}

RankIdle ==
    /\ \E choice \in [1..Len(DIFFICULTIES) -> {NoRow}] : amounts = AmountsOf(choice)
    /\ rf_pc = "unused"
    /\ rf_result = <<0, 0>>

RaceFrame ==
    /\ UNCHANGED <<rf_pc, rf_result, rc_start>>
    /\ UNCHANGED <<users_rank_plus, ar_pc, ar_local, ar_before, ar_rank_before,
                   ar_eff, ar_prev, calls>>
    /\ UNCHANGED submit_vars
    /\ UNCHANGED fanout_vars
    /\ UNCHANGED medal_vars

\* A completion of the member is recorded: the aggregated counts that
\* get_completions_data reads from then on earn one more tier on either
\* ladder, and the second invocation is entered.
NewCompletion ==
    /\ rc_pc[2] = "waiting"
    /\ LET pair == rank_finder(amounts) IN
       \E r \in pair[1]..(pair[1] + 1) : \E g \in pair[2]..(pair[2] + 1) :
          /\ g <= r
          /\ r <= Len(DIFFICULTIES)
          /\ <<r, g>> # pair
          /\ amounts' = AmountsOf(LadderChoice(r, g))
    /\ rc_pc' = [rc_pc EXCEPT ![2] = "rank_finder"]
    /\ UNCHANGED <<user_roles, users_rank, rc_local>>
    /\ RaceFrame

\* await rank_finder(client, user) of invocation p returns the pair for the
\* completions stored at that moment.
RaceRankFinder(p) ==
    /\ rc_pc[p] = "rank_finder"
    /\ LET pair == rank_finder(amounts) IN
       rc_local' = [rc_local EXCEPT ![p] =
                       [@ EXCEPT !.rank = pair[1], !.rank_plus = pair[2]]]
    /\ rc_pc' = [rc_pc EXCEPT ![p] = "roles"]
    /\ UNCHANGED <<amounts, user_roles, users_rank>>
    /\ RaceFrame

\* Invocation p resumes: added, removed and new_roles are computed from
\* user.roles as they are now, and compared with them.
RaceRoles(p) ==
    /\ rc_pc[p] = "roles"
    /\ LET l == rc_local[p]
           a == Added(user_roles, l.rank, l.rank_plus)
           r == Removed(user_roles, l.rank, l.rank_plus)
           n == NewRoles(user_roles, a, r)
       IN  /\ rc_local' = [rc_local EXCEPT ![p] =
                               [@ EXCEPT !.added = a, !.removed = r, !.new_roles = n]]
           /\ rc_pc' = [rc_pc EXCEPT ![p] = IF n # user_roles THEN "edit" ELSE "done"]
    /\ UNCHANGED <<amounts, user_roles, users_rank>>
    /\ RaceFrame

\* await user.edit(roles=new_roles) of invocation p is applied.
RaceEdit(p) ==
    /\ rc_pc[p] = "edit"
    /\ user_roles' = rc_local[p].new_roles
    /\ rc_pc' = [rc_pc EXCEPT ![p] = "dbset"]
    /\ UNCHANGED <<amounts, users_rank, rc_local>>
    /\ RaceFrame

\* await client.database.set(UPDATE users SET rank ...) of invocation p.
RaceDbSet(p) ==
    /\ rc_pc[p] = "dbset"
    /\ users_rank' = rc_local[p].rank
    /\ rc_pc' = [rc_pc EXCEPT ![p] = "done"]
    /\ UNCHANGED <<amounts, user_roles, rc_local>>
    /\ RaceFrame

InitRace ==
    /\ MedalIdle
    /\ SubmitIdle
    /\ FanoutIdle
    /\ \E r \in 0..MaxRaceRank : \E g \in 0..r :
          amounts = AmountsOf(LadderChoice(r, g))
    /\ rf_pc = "unused"
    /\ rf_result = <<0, 0>>
    /\ user_roles \in {S \in SUBSET AllRoles : Cardinality(S) <= MaxRaceRoles}
    /\ users_rank \in 0..MaxInitRank
    /\ users_rank_plus = 0
    /\ ar_pc = "unused"
    /\ ar_local = <<>>
    /\ ar_before = {}
    /\ ar_rank_before = 0
    /\ ar_eff = <<>>
    /\ ar_prev = "none"
    /\ calls = 0
    /\ rc_pc = [p \in Invocations |-> IF p = 1 THEN "rank_finder" ELSE "waiting"]
    /\ rc_local = [p \in Invocations |-> NoLocals]
    /\ rc_start = [roles |-> user_roles, rank |-> users_rank, amounts |-> amounts]

NextRace ==
    \/ NewCompletion
    \/ \E p \in Invocations : RaceRankFinder(p)
    \/ \E p \in Invocations : RaceRoles(p)
    \/ \E p \in Invocations : RaceEdit(p)
    \/ \E p \in Invocations : RaceDbSet(p)

SpecRace == InitRace /\ [][NextRace]_vars

(***************************************************************************)
(* SpecFanout: update_affected_users                                       *)
(***************************************************************************)

USER_IDS == 1..MaxUsers

\* The orders in which SELECT DISTINCT user_id may return the ids of S.
OrdersOf(S) ==
    {f \in [1..Cardinality(S) -> S] : \A i, j \in 1..Cardinality(S) : f[i] = f[j] => i = j}

FanoutFrame ==
    /\ UNCHANGED <<records, members>>
    /\ UNCHANGED rank_vars
    /\ UNCHANGED role_vars
    /\ UNCHANGED submit_vars
    /\ UNCHANGED race_vars
    /\ UNCHANGED medal_vars

\* users = [x.user_id async for x in database.get(SELECT DISTINCT user_id
\* FROM records WHERE map_code=$1)], then `if users:`; the query may raise.
UauQuery ==
    /\ uau_pc = "query"
    /\ \/ /\ \E order \in OrdersOf(records) : users' = order
          /\ uau_pc' = IF records # {} THEN "loop" ELSE "returned"
       \/ /\ uau_pc' = "raised"
          /\ UNCHANGED users
    /\ UNCHANGED <<invoked, reconciled, failed>>
    /\ FanoutFrame

\* One pass of `for x in users`: the loop ends, or x is not a member of the
\* guild and is passed over, or auto_role is called for x.
UauLoop ==
    /\ uau_pc = "loop"
    /\ IF users = <<>>
       THEN /\ uau_pc' = "returned"
            /\ UNCHANGED <<users, invoked>>
       ELSE IF Head(users) \in members
            THEN /\ invoked' = invoked \cup {Head(users)}
                 /\ uau_pc' = "auto_role"
                 /\ UNCHANGED users
            ELSE /\ users' = Tail(users)
                 /\ UNCHANGED <<uau_pc, invoked>>
    /\ UNCHANGED <<reconciled, failed>>
    /\ FanoutFrame

\* await utils.auto_role(itx.client, user) inside the loop: it returns and
\* the loop takes the next user, or it raises and the exception leaves
\* update_affected_users (no handler around the call or the loop).
UauAutoRole ==
    /\ uau_pc = "auto_role"
    /\ \/ /\ reconciled' = reconciled \cup {Head(users)}
          /\ users' = Tail(users)
          /\ uau_pc' = "loop"
          /\ UNCHANGED failed
       \/ /\ failed' = failed \cup {Head(users)}
          /\ uau_pc' = "raised"
          /\ UNCHANGED <<users, reconciled>>
    /\ UNCHANGED invoked
    /\ FanoutFrame

InitFanout ==
    /\ MedalIdle
    /\ RankIdle
    /\ RoleIdle
    /\ SubmitIdle
    /\ RaceIdle
    /\ records \in SUBSET USER_IDS
    /\ members \in SUBSET USER_IDS
    /\ users = <<>>
    /\ uau_pc = "query"
    /\ invoked = {}
    /\ reconciled = {}
    /\ failed = {}

NextFanout ==
    \/ UauQuery
    \/ UauLoop
    \/ UauAutoRole

SpecFanout == InitFanout /\ [][NextFanout]_vars

(***************************************************************************)
(* SpecMedal: the query of get_completions_data                            *)
(***************************************************************************)

\* SQL NULL for a threshold column (no map_medals row joined), and a
\* threshold or a record time t as a one-element tuple.
Null == <<>>

Val(t) == <<t>>

\* Three-valued comparison and conjunction: "T", "F", or "N" for NULL.
Le3(a, b) == IF a = Null \/ b = Null THEN "N" ELSE IF a[1] <= b[1] THEN "T" ELSE "F"

Gt3(a, b) == IF a = Null \/ b = Null THEN "N" ELSE IF a[1] > b[1] THEN "T" ELSE "F"

And3(p, q) ==
    IF p = "F" \/ q = "F" THEN "F" ELSE IF p = "N" \/ q = "N" THEN "N" ELSE "T"

\* The three boolean columns of map_data for one row.
Flags(row) ==
    [gold |-> Le3(row.record, row.gold),
     silver |-> And3(Le3(row.record, row.silver), Gt3(row.record, row.gold)),
     bronze |-> And3(Le3(row.record, row.bronze), Gt3(row.record, row.silver))]

\* The buckets a row's average difficulty may fall in, and the value for a
\* difficulty inside no range (the INNER JOIN with ranges drops the row).
MedalBuckets == {"Easy", "Medium"}

OutOfRange == "none"

\* The thresholds joined to a row: none (all three NULL) or three times.
Thresholds ==
    {<<Null, Null, Null>>}
        \cup {<<Val(g), Val(s), Val(b)>> : g \in 1..MaxTime, s \in 1..MaxTime, b \in 1..MaxTime}

MapDataRows ==
    {[difficulty |-> d, record |-> Val(t), gold |-> th[1], silver |-> th[2], bronze |-> th[3]] :
        d \in MedalBuckets \cup {OutOfRange}, t \in 1..MaxTime, th \in Thresholds}

\* count(CASE WHEN flag THEN 1 END) over the rows of bucket d.
CountFlag(rows, d, m) ==
    Cardinality({row \in rows : row.difficulty = d /\ Flags(row)[m] = "T"})

\* The outer SELECT ... GROUP BY name and the dict comprehension: one key
\* per bucket with a row, valued (completions, gold, silver, bronze).
Aggregate(rows) ==
    [d \in {row.difficulty : row \in rows} \ {OutOfRange} |->
        <<Cardinality({row \in rows : row.difficulty = d}),
          CountFlag(rows, d, "gold"), CountFlag(rows, d, "silver"),
          CountFlag(rows, d, "bronze")>>]

get_completions_data ==
    /\ gcd_pc = "query"
    /\ amounts' = Aggregate(map_data)
    /\ gcd_pc' = "done"
    /\ UNCHANGED <<map_data, rf_pc, rf_result>>
    /\ UNCHANGED role_vars
    /\ UNCHANGED submit_vars
    /\ UNCHANGED race_vars
    /\ UNCHANGED fanout_vars

InitMedal ==
    /\ RankIdle
    /\ RoleIdle
    /\ SubmitIdle
    /\ RaceIdle
    /\ FanoutIdle
    /\ \E n \in 0..MaxCompletions : \E picked \in [1..n -> MapDataRows] :
          map_data = {picked[k] : k \in 1..n}
    /\ gcd_pc = "query"

NextMedal == get_completions_data

SpecMedal == InitMedal /\ [][NextMedal]_vars

(***************************************************************************)
(* MapSubmission.insert_all                                                *)
(***************************************************************************)

\* The tables insert_all writes, in the order of its awaits.
TABLES == <<"maps", "map_mechanics", "map_restrictions", "map_creators",
            "map_ratings", "guides", "map_medals", "map_submission_dates">>

TableSet == {TABLES[i] : i \in 1..Len(TABLES)}

MAP_CODE == "CODE1"

CREATOR == "creator"

NoMedals == "None"

\* self.map_types of the submission.
MAP_TYPES == <<"Classic">>

SeqsUpTo(S, n) == UNION {[1..k -> S] : k \in 0..n}

\* Variant of the comprehension without its filter.
NonEmptyOf_All(seq) == seq

\* [f(x) for x in seq if keep(x)] for keep = "x is non-empty".
RECURSIVE NonEmptyOf(_)
NonEmptyOf(seq) ==
    IF seq = <<>> THEN <<>>
    ELSE IF Head(seq) # "" THEN <<Head(seq)>> \o NonEmptyOf(Tail(seq))
         ELSE NonEmptyOf(Tail(seq))

\* One awaited database.set / set_many: the rows are stored and the next
\* insert is reached, or the statement raises and insert_all is left.
Execute(table, rows, next) ==
    \/ /\ db' = [db EXCEPT ![table] = @ \o rows]
       /\ ia_pc' = next
    \/ /\ ia_pc' = "raised"
       /\ UNCHANGED db

\* An insert whose guard is false issues no statement.
NoStatement(next) ==
    /\ ia_pc' = next
    /\ UNCHANGED db

SubmitFrame ==
    /\ UNCHANGED <<submission, seen>>
    /\ UNCHANGED rank_vars
    /\ UNCHANGED role_vars
    /\ UNCHANGED race_vars
    /\ UNCHANGED fanout_vars
    /\ UNCHANGED medal_vars

\* Variant: the maps row is not written ahead of the rows that refer to it.
insert_maps_Deferred ==
    /\ ia_pc = "insert_maps"
    /\ NoStatement("insert_mechanics")
    /\ SubmitFrame

insert_maps ==
    /\ ia_pc = "insert_maps"
    /\ Execute("maps",
               <<[map_code |-> MAP_CODE, map_type |-> MAP_TYPES,
                  official |-> submission.mod]>>,
               "insert_mechanics")
    /\ SubmitFrame

insert_mechanics ==
    /\ ia_pc = "insert_mechanics"
    /\ Execute("map_mechanics",
               [i \in 1..Len(submission.mechanics) |-> <<MAP_CODE, submission.mechanics[i]>>],
               "insert_restrictions")
    /\ SubmitFrame

insert_restrictions ==
    /\ ia_pc = "insert_restrictions"
    /\ Execute("map_restrictions",
               [i \in 1..Len(submission.restrictions) |-> <<MAP_CODE, submission.restrictions[i]>>],
               "insert_map_creators")
    /\ SubmitFrame

insert_map_creators ==
    /\ ia_pc = "insert_map_creators"
    /\ Execute("map_creators", <<<<MAP_CODE, CREATOR>>>>, "insert_map_ratings")
    /\ SubmitFrame

insert_map_ratings ==
    /\ ia_pc = "insert_map_ratings"
    /\ Execute("map_ratings", <<<<MAP_CODE, CREATOR, submission.difficulty>>>>, "insert_guide")
    /\ SubmitFrame

insert_guide ==
    /\ ia_pc = "insert_guide"
    /\ LET links == NonEmptyOf(submission.guides)
           _guides == [i \in 1..Len(links) |-> <<MAP_CODE, links[i]>>]
       IN  IF _guides # <<>>
           THEN Execute("guides", _guides, "insert_medals")
           ELSE NoStatement("insert_medals")
    /\ SubmitFrame

\* Variant: the medals statement runs whether or not medals were given.
insert_medals_Always ==
    /\ ia_pc = "insert_medals"
    /\ Execute("map_medals", <<<<submission.medals, MAP_CODE>>>>, "insert_timestamp")
    /\ SubmitFrame

insert_medals ==
    /\ ia_pc = "insert_medals"
    /\ IF submission.medals # NoMedals
       THEN Execute("map_medals",
                    <<<<submission.medals[1], submission.medals[2],
                        submission.medals[3], MAP_CODE>>>>,
                    "insert_timestamp")
       ELSE NoStatement("insert_timestamp")
    /\ SubmitFrame

insert_timestamp ==
    /\ ia_pc = "insert_timestamp"
    /\ IF ~submission.mod
       THEN Execute("map_submission_dates", <<<<CREATOR, MAP_CODE>>>>, "returned")
       ELSE NoStatement("returned")
    /\ SubmitFrame

\* Another coroutine queries the map's rows while insert_all is suspended
\* at an await (or before or after it): it sees the tables as they are.
Reader ==
    /\ ia_pc # "unused"
    /\ seen' = {t \in TableSet : db[t] # <<>>}
    /\ UNCHANGED <<submission, db, ia_pc>>
    /\ UNCHANGED rank_vars
    /\ UNCHANGED role_vars
    /\ UNCHANGED race_vars
    /\ UNCHANGED fanout_vars
    /\ UNCHANGED medal_vars

InitSubmit ==
    /\ MedalIdle
    /\ RoleIdle
    /\ RaceIdle
    /\ FanoutIdle
    /\ \E choice \in [1..Len(DIFFICULTIES) -> {NoRow}] : amounts = AmountsOf(choice)
    /\ rf_pc = "unused"
    /\ rf_result = <<0, 0>>
    /\ submission \in [guides : SeqsUpTo({"", "https://guide"}, MaxGuides),
                        medals : {NoMedals, <<30, 40, 50>>},
                        mechanics : SeqsUpTo({"Bhop"}, MaxTags),
                        restrictions : SeqsUpTo({"Dash Start"}, MaxTags),
                        difficulty : {"Easy"},
                        mod : BOOLEAN]
    /\ db = [t \in TableSet |-> <<>>]
    /\ ia_pc = "insert_maps"
    /\ seen = Unread

NextSubmit ==
    \/ insert_maps
    \/ insert_mechanics
    \/ insert_restrictions
    \/ insert_map_creators
    \/ insert_map_ratings
    \/ insert_guide
    \/ insert_medals
    \/ insert_timestamp
    \/ Reader

SpecSubmit == InitSubmit /\ [][NextSubmit]_vars

(***************************************************************************)
(* Properties of rank_finder (checked under SpecRank)                      *)
(***************************************************************************)

\* Completion count of bucket i in a dict, a missing bucket counting as 0.
CompletionsIn(amts, i) ==
    IF DIFFICULTIES[i] \in DOMAIN amts THEN amts[DIFFICULTIES[i]][1] ELSE 0

\* The dict that differs from amts only in bucket i's completion count.
WithCompletions(amts, i, c) ==
    [d \in DOMAIN amts \cup {DIFFICULTIES[i]} |->
        IF d = DIFFICULTIES[i]
        THEN IF d \in DOMAIN amts
             THEN <<c, amts[d][2], amts[d][3], amts[d][4]>>
             ELSE <<c, 0, 0, 0>>
        ELSE amts[d]]

\* Bucket i is missing or its completion count is below its threshold.
BucketFails(amts, i) == CompletionsIn(amts, i) < _RANK_THRESHOLD[i]

\* C3: for every aggregated input, the pair returned by rank_finder satisfies
\* 0 <= rank_plus <= rank <= 6.
C3_RankPlusBounded ==
    rf_pc = "done" =>
        /\ 0 <= rf_result[2]
        /\ rf_result[2] <= rf_result[1]
        /\ rf_result[1] <= Len(DIFFICULTIES)

\* rank_finder has returned a pair with 0 < rank_plus < rank.
C3_Witness ==
    rf_pc = "done" /\ 0 < rf_result[2] /\ rf_result[2] < rf_result[1]

\* C4: raising one bucket's completion count, the rest of the input held
\* fixed and a missing bucket counting as 0, never lowers the rank returned.
C4_RankMonotone ==
    rf_pc = "done" =>
        \A i \in 1..Len(DIFFICULTIES) : \A v \in {1, 2} :
            CountVals(i)[v] > CompletionsIn(amounts, i) =>
                rank_finder(WithCompletions(amounts, i, CountVals(i)[v]))[1]
                    >= rf_result[1]

\* Some single-bucket increase of the input strictly raises the rank, and
\* the input already had a rank above 0.
C4_Witness ==
    /\ rf_pc = "done"
    /\ rf_result[1] > 0
    /\ \E i \in 1..Len(DIFFICULTIES) : \E v \in {1, 2} :
          /\ CountVals(i)[v] > CompletionsIn(amounts, i)
          /\ rank_finder(WithCompletions(amounts, i, CountVals(i)[v]))[1]
                > rf_result[1]

\* C5: if k is the first bucket that is missing or below its threshold, the
\* rank returned is the number of buckets before k, whatever the later
\* buckets hold; the empty input yields (0, 0).
C5_RankContiguous ==
    rf_pc = "done" =>
        /\ \A k \in 1..Len(DIFFICULTIES) :
              (BucketFails(amounts, k) /\ \A j \in 1..(k - 1) : ~BucketFails(amounts, j))
                  => rf_result[1] = k - 1
        /\ (DOMAIN amounts = {} => rf_result = <<0, 0>>)

\* The walk stopped at a failing bucket k > 1 although a later bucket meets
\* its threshold.
C5_Witness ==
    /\ rf_pc = "done"
    /\ \E k \in 2..(Len(DIFFICULTIES) - 1) :
          /\ BucketFails(amounts, k)
          /\ \A j \in 1..(k - 1) : ~BucketFails(amounts, j)
          /\ \E m \in (k + 1)..Len(DIFFICULTIES) : ~BucketFails(amounts, m)
          /\ rf_result[1] = k - 1

\* The gold count of bucket i, a missing bucket counting as 0, and whether
\* bucket i meets its threshold in completions and in gold.
GoldIn(amts, i) ==
    IF DIFFICULTIES[i] \in DOMAIN amts THEN amts[DIFFICULTIES[i]][2] ELSE 0

GoldPasses(amts, i) ==
    ~BucketFails(amts, i) /\ GoldIn(amts, i) >= _RANK_THRESHOLD[i]

\* The length of the longest prefix of the buckets in which every bucket
\* meets its threshold in completions and in gold.
GoldPrefix(amts) ==
    CHOOSE k \in 0..Len(DIFFICULTIES) :
        /\ \A j \in 1..k : GoldPasses(amts, j)
        /\ k = Len(DIFFICULTIES) \/ ~GoldPasses(amts, k + 1)

\* The two worked inputs: Easy and Medium rows only.
ScenarioA ==
    [d \in {"Easy", "Medium"} |->
        IF d = "Easy" THEN <<12, 4, 0, 0>> ELSE <<10, 1, 0, 0>>]

ScenarioB ==
    [d \in {"Easy", "Medium"} |->
        IF d = "Easy" THEN <<15, 15, 0, 0>> ELSE <<10, 5, 0, 0>>]

\* C19: the rank_plus returned is the length of the longest prefix of
\* buckets that each meet the threshold in completions and in gold; the
\* first worked input yields (2, 0) and the second (2, 1).
C19_RankPlusIsGoldPrefix ==
    /\ rf_pc = "done" => rf_result[2] = GoldPrefix(amounts)
    /\ rank_finder(ScenarioA) = <<2, 0>>
    /\ rank_finder(ScenarioB) = <<2, 1>>

\* rank_plus stopped at 1 while rank went on to 3 or more, through a third
\* bucket that meets its gold threshold.
C19_Witness ==
    /\ rf_pc = "done"
    /\ rf_result[2] = 1
    /\ rf_result[1] >= 3
    /\ GoldPasses(amounts, 3)

\* C20 as stated: the pair returned satisfies rank - 1 <= rank_plus <= rank.
C20_PlusWithinOne ==
    rf_pc = "done" =>
        /\ rf_result[1] - 1 <= rf_result[2]
        /\ rf_result[2] <= rf_result[1]

\* C20: rank_plus never exceeds rank, and it is within one of rank exactly
\* when each of the first rank - 1 buckets meets its gold threshold;
\* otherwise it trails rank by two or more.
C20_PlusTrailsByGold ==
    rf_pc = "done" =>
        /\ rf_result[2] <= rf_result[1]
        /\ (rf_result[1] - 1 <= rf_result[2])
              <=> (\A j \in 1..(rf_result[1] - 1) : GoldPasses(amounts, j))

\* rank_finder has returned a rank_plus three or more below rank.
C20_Witness ==
    rf_pc = "done" /\ rf_result[1] - rf_result[2] >= 3

(***************************************************************************)
(* Properties of auto_role (checked under SpecRole)                        *)
(***************************************************************************)

\* The ladder roles of tiers 1..rank and of tiers above rank (tier t is
\* element t - 1 of the sliced ladder; tier 0 carries no ladder role).
UpTo(ladder, tier) == SliceTo(ladder, tier)

Above(ladder, tier) == SliceFrom(ladder, tier)

\* C6: a second invocation for the same member, entered after a first one
\* that returned normally, with the same completions and no change of the
\* member's roles in between, edits no role, writes nothing to the database,
\* dispatches no event and sends no message.
C6_Idempotent ==
    (calls >= 2 /\ ar_prev = "done" /\ ar_pc \notin {"rank_finder", "raised"}) =>
        /\ ar_pc = "done"
        /\ ar_eff = NoEffects
        /\ user_roles = ar_before

\* A second invocation has returned after a first one that wrote the top
\* rank to the database (so the first one changed the grant set).
C6_Witness ==
    /\ calls = 2
    /\ ar_prev = "done"
    /\ ar_pc = "done"
    /\ ar_local.rank = Len(rank_roles)
    /\ users_rank = ar_local.rank
    /\ MaxInitRank < Len(rank_roles)

\* C7: when auto_role has returned normally with the computed pair
\* (rank, rank_plus), the member holds every plain-ladder role of tiers
\* 1..rank and every plus-ladder role of tiers 1..rank_plus.
C7_TargetRolesHeld ==
    ar_pc = "done" =>
        /\ UpTo(rank_roles, ar_local.rank) \subseteq user_roles
        /\ UpTo(rank_plus_roles, ar_local.rank_plus) \subseteq user_roles

\* A first invocation has returned for a member who lacked target roles of
\* both ladders and held a role above the target.
C7_Witness ==
    /\ ar_pc = "done"
    /\ calls = 1
    /\ ar_local.rank >= 3
    /\ ar_local.rank_plus >= 1
    /\ Cardinality(UpTo(rank_roles, ar_local.rank) \ ar_before) >= 2
    /\ UpTo(rank_plus_roles, ar_local.rank_plus) \ ar_before # {}
    /\ Above(rank_roles, ar_local.rank) \cap ar_before # {}

\* C8 (as claimed): when auto_role has returned normally, the member holds
\* no plain-ladder role above tier rank and no plus-ladder role above tier
\* rank_plus, the role immediately above the target included.
C8_NoRoleAboveTarget ==
    ar_pc = "done" =>
        /\ Above(rank_roles, ar_local.rank) \cap user_roles = {}
        /\ Above(rank_plus_roles, ar_local.rank_plus) \cap user_roles = {}

\* C9 (as claimed): when auto_role has changed the grant set and returned,
\* the Player record holds the computed rank and the computed rank_plus.
C9_RankAndPlusPersisted ==
    (ar_pc = "done" /\ user_roles # ar_before) =>
        /\ users_rank = ar_local.rank
        /\ users_rank_plus = ar_local.rank_plus

C11_SendFailureSwallowed ==
    [][ar_pc = "send" =>
          /\ ar_pc' = "done"
          /\ user_roles' = user_roles
          /\ users_rank' = users_rank
          /\ ar_eff'.newsfeed = ar_eff.newsfeed
          /\ ar_eff'.edited = ar_eff.edited
          /\ ar_eff'.dbset = ar_eff.dbset]_vars

\* A reconciliation that edited the roles, wrote the rank and dispatched
\* its event has returned although the message could not be delivered.
C11_Witness ==
    /\ ar_pc = "done"
    /\ ar_eff.sent = "failed"
    /\ ar_eff.edited
    /\ ar_eff.dbset
    /\ users_rank = ar_local.rank
    /\ Len(ar_eff.newsfeed) = 1

\* C17: when user.edit has raised, auto_role has ended with the error, the
\* member's roles and the persisted rank are what they were on entry, and
\* the invocation has dispatched no event and attempted no message.
C17_EditFailureSurfaces ==
    ar_eff.edit_error =>
        /\ ar_pc = "raised"
        /\ user_roles = ar_before
        /\ users_rank = ar_rank_before
        /\ ~ar_eff.dbset
        /\ ar_eff.newsfeed = <<>>
        /\ ar_eff.sent = "no"

\* user.edit has raised in a reconciliation that was about to add roles and
\* to change the persisted rank.
C17_Witness ==
    /\ ar_pc = "raised"
    /\ ar_eff.edit_error
    /\ ar_local.added # {}
    /\ ar_local.rank # users_rank

\* The roles of the plain ladder and of the plus ladder.
LadderRoles ==
    {ranks[i] : i \in 1..Len(ranks)} \cup {ranks_plus[i] : i \in 1..Len(ranks_plus)}

\* C22: from the entry of an invocation of auto_role on, every role the
\* member held at entry that is on neither ladder is still held, every
\* role gained since entry is a ladder role, and the invocation's added and
\* removed lists hold ladder roles only.
C22_OnlyLadderRolesChange ==
    ar_pc # "idle" =>
        /\ (ar_before \ LadderRoles) \subseteq user_roles
        /\ (user_roles \ ar_before) \subseteq LadderRoles
        /\ ar_local.added \subseteq LadderRoles
        /\ ar_local.removed \subseteq LadderRoles

\* An invocation has returned after an edit that added a ladder role and
\* removed another for a member who holds a role on neither ladder.
C22_Witness ==
    /\ ar_pc = "done"
    /\ ar_eff.edited
    /\ ar_local.added # {}
    /\ ar_local.removed # {}
    /\ ar_before \ LadderRoles # {}
    /\ (ar_before \ LadderRoles) \subseteq user_roles
    /\ user_roles # ar_before

(***************************************************************************)
(* Medals per completion (checked under SpecMedal)                         *)
(***************************************************************************)

\* The medal columns of a row that are TRUE.
MedalsOf(row) == {m \in {"gold", "silver", "bronze"} : Flags(row)[m] = "T"}

\* C21 (as claimed): whatever the record time and the thresholds, a row of
\* map_data has at most one of gold, silver and bronze true, and in every
\* bucket of the result gold + silver + bronze <= completions.
C21_AtMostOneMedal ==
    gcd_pc = "done" =>
        /\ \A row \in map_data : Cardinality(MedalsOf(row)) <= 1
        /\ \A d \in DOMAIN amounts :
              amounts[d][2] + amounts[d][3] + amounts[d][4] <= amounts[d][1]

(***************************************************************************)
(* Concurrent reconciliations of one member (checked under SpecRace)       *)
(***************************************************************************)

\* One whole reconciliation run alone from roles and persisted rank S with
\* the completions amts: what it leaves.
Reconciled(S, amts) ==
    LET pair == rank_finder(amts)
        a == Added(S.roles, pair[1], pair[2])
        r == Removed(S.roles, pair[1], pair[2])
        n == NewRoles(S.roles, a, r)
    IN  IF n # S.roles THEN [roles |-> n, rank |-> pair[1]] ELSE S

\* What the two reconciliations leave when one runs after the other: the
\* later one reads the completions as they are at the end, the earlier
\* one those or the ones before the new completion.
SerialOutcomes ==
    LET S0 == [roles |-> rc_start.roles, rank |-> rc_start.rank] IN
    {Reconciled(Reconciled(S0, first), amounts) : first \in {rc_start.amounts, amounts}}

\* C12 (as claimed): when both concurrent reconciliations have ended, the
\* member's roles and the persisted rank are those some one-after-the-other
\* run of the two leaves.
C12_RacesSerialized ==
    (\A p \in Invocations : rc_pc[p] = "done") =>
        [roles |-> user_roles, rank |-> users_rank] \in SerialOutcomes

(***************************************************************************)
(* The fan-out of update_affected_users (checked under SpecFanout)         *)
(***************************************************************************)

\* update_affected_users has ended, by returning or by an exception.
FanoutEnded == uau_pc \in {"returned", "raised"}

\* C13 (as claimed): once the fan-out that follows the write has ended,
\* auto_role has been invoked for every user that holds a record for the
\* map code (nothing invokes it for the map code afterwards).
C13_EveryHolderReconciled ==
    FanoutEnded => records \subseteq invoked

\* C14 (as claimed): once the fan-out has ended with the auto_role of some
\* user having raised, auto_role has been invoked and has returned for
\* every other member of the guild that holds a record for the map code.
C14_FailureDoesNotAbort ==
    (FanoutEnded /\ failed # {}) =>
        \A u \in (records \cap members) \ failed :
            u \in invoked /\ u \in reconciled

(***************************************************************************)
(* Properties of insert_all (checked under SpecSubmit)                     *)
(***************************************************************************)

\* The tables a complete write of the submission leaves rows in.
CompleteTables ==
    {"maps", "map_creators", "map_ratings"}
        \cup (IF submission.mechanics # <<>> THEN {"map_mechanics"} ELSE {})
        \cup (IF submission.restrictions # <<>> THEN {"map_restrictions"} ELSE {})
        \cup (IF NonEmptyOf(submission.guides) # <<>> THEN {"guides"} ELSE {})
        \cup (IF submission.medals # NoMedals THEN {"map_medals"} ELSE {})
        \cup (IF ~submission.mod THEN {"map_submission_dates"} ELSE {})

\* C1 (as claimed): once insert_all has raised because one of its writes
\* failed, no row written by the invocation remains in any table.
C1_FailedWriteLeavesNothing ==
    ia_pc = "raised" => \A t \in TableSet : db[t] = <<>>

\* C2 (as claimed): a concurrent reader sees either none of the
\* submission's row groups or all of them, never some without the others.
C2_ReaderSeesAllOrNothing ==
    seen # Unread => (seen = {} \/ seen = CompleteTables)

\* The links of the guide list that are not empty, counted by position.
NonEmptyLinks == {i \in 1..Len(submission.guides) : submission.guides[i] # ""}

\* insert_all is past insert_guide without having raised.
PastGuides == ia_pc \in {"insert_medals", "insert_timestamp", "returned"}

\* C15: once insert_guide has completed, the guides table holds one row per
\* non-empty link of the guide list and none for an empty link, and it
\* never holds more rows than that.
C15_GuideRowPerNonEmptyLink ==
    /\ Len(db["guides"]) <= Cardinality(NonEmptyLinks)
    /\ PastGuides =>
          /\ Len(db["guides"]) = Cardinality(NonEmptyLinks)
          /\ \A k \in 1..Len(db["guides"]) : db["guides"][k][2] # ""

\* A submission with one empty and one populated link has been written and
\* left exactly one guide row.
C15_Witness ==
    /\ ia_pc = "returned"
    /\ Len(submission.guides) = 2
    /\ Cardinality(NonEmptyLinks) = 1
    /\ Len(db["guides"]) = 1

\* The submission supplies a mechanic, a restriction and a non-empty guide
\* link and is not written by a privileged actor.
SuppliesAllButMedals ==
    /\ submission.mechanics # <<>>
    /\ submission.restrictions # <<>>
    /\ NonEmptyLinks # {}
    /\ ~submission.mod

\* C16: the medals table holds a row only if the submission has medals;
\* a submission without medals that supplies every other group leaves,
\* once insert_all has returned, no medals row and rows in each of the
\* seven other tables.
C16_MedalsOnlyIfSupplied ==
    /\ db["map_medals"] # <<>> => submission.medals # NoMedals
    /\ (ia_pc = "returned" /\ submission.medals = NoMedals /\ SuppliesAllButMedals) =>
          /\ db["map_medals"] = <<>>
          /\ \A t \in TableSet \ {"map_medals"} : db[t] # <<>>

\* Such a submission has been written.
C16_Witness ==
    /\ ia_pc = "returned"
    /\ submission.medals = NoMedals
    /\ SuppliesAllButMedals
    /\ db["map_medals"] = <<>>
    /\ db["map_submission_dates"] # <<>>
    /\ db["guides"] # <<>>

\* The row groups in the order C18 states them; the second is the
\* type-tag junction.
StatedGroups ==
    <<"maps", "map_types", "map_mechanics", "map_restrictions", "map_creators",
      "map_ratings", "guides", "map_medals", "map_submission_dates">>

\* The rows stored for a group: none when insert_all writes no such table.
RowsOf(g) == IF g \in DOMAIN db THEN db[g] ELSE <<>>

\* The submission supplies every group.
SuppliesAll == SuppliesAllButMedals /\ submission.medals # NoMedals

\* The index in TABLES of the insert insert_all has reached; one past the
\* last when it has returned.
Position ==
    CASE ia_pc = "insert_maps" -> 1
      [] ia_pc = "insert_mechanics" -> 2
      [] ia_pc = "insert_restrictions" -> 3
      [] ia_pc = "insert_map_creators" -> 4
      [] ia_pc = "insert_map_ratings" -> 5
      [] ia_pc = "insert_guide" -> 6
      [] ia_pc = "insert_medals" -> 7
      [] ia_pc = "insert_timestamp" -> 8
      [] OTHER -> Len(TABLES) + 1

\* C18 as stated: a submission that supplies every group has, once
\* insert_all has returned, rows in each of the nine stated groups, the
\* type-tag junction included.
C18_NineGroupsWritten ==
    (ia_pc = "returned" /\ SuppliesAll) =>
        \A k \in 1..Len(StatedGroups) : RowsOf(StatedGroups[k]) # <<>>

\* C18: insert_all writes eight tables in the order of TABLES, the type
\* tags travelling in the maps row: a table not yet reached is empty, a
\* table has rows only if every earlier table the submission supplies has
\* them, any row implies the maps row, and the timestamp row is written
\* only for a submission that is not privileged.
C18_WritesInOrder ==
    /\ ia_pc # "raised" =>
          \A j \in 1..Len(TABLES) : j >= Position => db[TABLES[j]] = <<>>
    /\ \A i, j \in 1..Len(TABLES) :
          (i < j /\ db[TABLES[j]] # <<>> /\ TABLES[i] \in CompleteTables)
              => db[TABLES[i]] # <<>>
    /\ \A t \in TableSet : db[t] # <<>> => db["maps"] # <<>>
    /\ db["maps"] # <<>> => db["maps"][1].map_type = MAP_TYPES
    /\ db["map_submission_dates"] # <<>> => ~submission.mod

\* insert_all is suspended between the ratings insert and the guide
\* insert of a submission that supplies every group: the first five tables
\* have rows, the last three have none.
C18_Witness ==
    /\ ia_pc = "insert_guide"
    /\ SuppliesAll
    /\ \A j \in 1..5 : db[TABLES[j]] # <<>>
    /\ \A j \in 6..Len(TABLES) : db[TABLES[j]] = <<>>

====
